---- MODULE Spec2Model ----
(***************************************************************************)
(* Verification model of the lab-report dashboard (Vass-S/thadamAI):       *)
(*   lab_extractor.py  - patient identity, duplicate gate, patient store   *)
(*   llm_verifier.py   - audit diff, corrections, pending-review store     *)
(*   app.py            - Upload Reports, Patient Profiles, LLM Review      *)
(*                                                                         *)
(* A patient profile is one CSV file; the model keeps the text of each     *)
(* file as a sequence of rows and applies the pandas conversions the code  *)
(* goes through when it reads and writes a file.                           *)
(*                                                                         *)
(* Encoding of the report_date column.  A stored cell is a string; the     *)
(* strings that occur are ordered like the integers that stand for them:   *)
(*      EmptyDate   ""                                                     *)
(*      Iso(d)      "YYYY-MM-DD" of day d                                  *)
(*      Ts(d)       "YYYY-MM-DD 00:00:00" of day d                         *)
(* and, in memory only, NaN (what read_csv makes of an empty cell) and NaT *)
(* (what to_datetime makes of NaN).                                        *)
(***************************************************************************)
EXTENDS Integers, Sequences, FiniteSets, TLC

\* ------------------------------------------------------------------ bounds
MaxDay == 2
MaxUploads == 3
MaxDecisions == 2
MaxAdminOps == 1
MaxOps == 3
MaxStoreOps == 4
MaxTrendDay == 3
MaxHistory == 3

\* ------------------------------------------------------------- date strings
EmptyDate == 0
NaN == 0 - 1
NaT == 0 - 2
Iso(d) == 2 * d
Ts(d) == 2 * d + 1
Days == 1..MaxDay
IsoDates == {Iso(d) : d \in Days}

\* str(x)[:10]: the date part of a stored report_date string.
Prefix10(s) == IF s <= 0 THEN EmptyDate ELSE Iso(s \div 2)

\* pd.read_csv: an empty cell comes back as NaN, any other string as itself.
ReadCell(s) == IF s = EmptyDate THEN NaN ELSE s

\* DataFrame.to_csv on a column of strings: NaN is written as the empty cell.
WriteCell(x) == IF x = NaN \/ x = NaT THEN EmptyDate ELSE x

\* pd.to_datetime(errors="coerce") of one cell: the day, or NaT.
ToDatetime(x) == IF x <= 0 THEN NaT ELSE x \div 2

\* Series.dt.strftime("%Y-%m-%d"): NaT stays missing (compares unequal to all).
Strftime(t) == IF t = NaT THEN NaN ELSE Iso(t)

\* --------------------------------------------------------------- vocabulary
NoValue == 0 - 1
\* The status of a row added for a missed test (an em dash in the source).
Unknown == "-"

\* Names are sequences of words; the character count is what save_report compares.
RECURSIVE NameLen(_)
NameLen(name) ==
    IF name = <<>> THEN 0
    ELSE Len(Head(name)) + (IF Len(name) > 1 THEN 1 ELSE 0) + NameLen(Tail(name))

FullName == <<"SRINIWAS", "SRIRAM">>
ShortName == <<"SRINIWAS", "S">>
OtherName == <<"ANU", "RAO">>

\* ------------------------------------------------------- uploaded documents
\* What extract_metadata and extract_biomarkers read out of each document the
\* model uploads.  Every document has different bytes.
Files == {"a.pdf", "b.pdf", "c.pdf", "d.pdf", "e.pdf"}

extract_metadata(f) ==
    CASE f = "a.pdf" -> [name |-> FullName, gender |-> "M", date |-> Iso(1), age |-> 34, phone |-> ""]
      [] f = "b.pdf" -> [name |-> FullName, gender |-> "M", date |-> EmptyDate, age |-> 34, phone |-> ""]
      [] f = "c.pdf" -> [name |-> FullName, gender |-> "M", date |-> Iso(1), age |-> 34, phone |-> ""]
      [] f = "d.pdf" -> [name |-> ShortName, gender |-> "M", date |-> EmptyDate, age |-> 34, phone |-> ""]
      [] f = "f.pdf" -> [name |-> OtherName, gender |-> "F", date |-> EmptyDate, age |-> 52, phone |-> ""]
      [] f = "g.pdf" -> [name |-> FullName, gender |-> "", date |-> Iso(1), age |-> 34, phone |-> ""]
      [] f = "h.pdf" -> [name |-> ShortName, gender |-> "", date |-> Iso(2), age |-> 34, phone |-> ""]
      [] f = "i.pdf" -> [name |-> FullName, gender |-> "M", date |-> Iso(2), age |-> 34, phone |-> ""]
      [] OTHER -> [name |-> <<>>, gender |-> "", date |-> EmptyDate, age |-> 0, phone |-> ""]

extract_biomarkers(f) ==
    CASE f = "a.pdf" -> <<[test_name |-> 1, value |-> 10000, unit |-> "mg/dL", status |-> "Normal"]>>
      [] f = "b.pdf" -> <<[test_name |-> 1, value |-> 10000, unit |-> "mg/dL", status |-> "Normal"]>>
      [] f = "c.pdf" -> <<[test_name |-> 1, value |-> 12000, unit |-> "mg/dL", status |-> "HIGH"]>>
      [] f = "d.pdf" -> <<[test_name |-> 1, value |-> 8000, unit |-> "mg/dL", status |-> "LOW"]>>
      [] f = "f.pdf" -> <<[test_name |-> 1, value |-> 9000, unit |-> "mg/dL", status |-> "Normal"]>>
      [] f = "g.pdf" -> <<[test_name |-> 1, value |-> 10000, unit |-> "mg/dL", status |-> "Normal"]>>
      [] f = "h.pdf" -> <<[test_name |-> 1, value |-> 8000, unit |-> "mg/dL", status |-> "LOW"]>>
      [] f = "i.pdf" -> <<[test_name |-> 1, value |-> 11000, unit |-> "mg/dL", status |-> "Normal"],
                          [test_name |-> 2, value |-> 5000, unit |-> "mg/dL", status |-> "Normal"]>>
      [] OTHER -> <<>>

\* SHA-256 of the bytes: documents with different bytes have different digests
\* (no collision among the documents of the model).
file_hash(f) == <<"sha256", f>>

\* --------------------------------------------------------------- sequences
\* DataFrame.drop_duplicates(subset=..., keep="first")
drop_duplicates(s, Key(_)) ==
    LET first == SelectSeq([i \in 1..Len(s) |-> i],
                           LAMBDA i : \A j \in 1..(i - 1) : Key(s[j]) # Key(s[i]))
    IN  [k \in 1..Len(first) |-> s[first[k]]]

MapSeq(s, F(_)) == [i \in 1..Len(s) |-> F(s[i])]

\* A missing value sorts last (na_position="last"), strings by their text.
CellBefore(a, b) == a # NaN /\ (b = NaN \/ a < b)

RowBefore(r, q) ==
    \/ r.test_name < q.test_name
    \/ r.test_name = q.test_name /\ CellBefore(r.report_date, q.report_date)

\* DataFrame.sort_values(["test_name", "report_date"]); rows with equal keys keep
\* their order.
RECURSIVE InsertSorted(_, _)
InsertSorted(s, r) ==
    IF s = <<>> THEN <<r>>
    ELSE IF RowBefore(r, Head(s)) THEN <<r>> \o s
    ELSE <<Head(s)>> \o InsertSorted(Tail(s), r)

RECURSIVE sort_values(_)
sort_values(s) ==
    IF s = <<>> THEN <<>>
    ELSE InsertSorted(sort_values(SubSeq(s, 1, Len(s) - 1)), s[Len(s)])

\* pd.read_csv / to_csv of a whole profile.  Of the cells that can be empty, those
\* of report_date are read as NaN here; an empty gender cell is written back empty
\* by every operation and is read by _lookup_existing_pid alone (StoredGender).
read_csv(rows) == MapSeq(rows, LAMBDA r : [r EXCEPT !.report_date = ReadCell(@)])
to_csv(rows) == MapSeq(rows, LAMBDA r : [r EXCEPT !.report_date = WriteCell(@)])

\* ------------------------------------------------------- patient identity
real_words(name) == SelectSeq(name, LAMBDA w : Len(w) >= 2)

\* "P" + sha256(key)[:8]: the model keeps the key itself as the identifier
\* (distinct keys, distinct identifiers).
PidOf(kind, words, gender, extra) == <<kind, words, gender, extra>>

\* str(df["gender"].iloc[0]).upper() after pd.read_csv: an empty cell is read as NaN,
\* whose string is "nan".
StoredGender(cell) == IF cell = "" THEN "NAN" ELSE cell

\* _lookup_existing_pid: the identifiers the scan of the store can return (the
\* scan order of glob is not fixed, so every matching profile is a possible result).
_lookup_existing_pid(store, first_name, gender) ==
    {p \in DOMAIN store :
        /\ store[p] # <<>>
        /\ StoredGender(store[p][1].gender) = gender
        /\ store[p][1].patient_name # <<>>
        /\ store[p][1].patient_name[1] = first_name
        /\ Len(first_name) >= 4}

Decade(age) == IF age = 0 THEN "XX" ELSE ToString((age \div 10) * 10)

\* make_patient_id: the set of identifiers the call can return in `store`.
make_patient_id(store, meta) ==
    LET words == real_words(meta.name)
        first == IF words # <<>> THEN words[1] ELSE "UNKNOWN"
        found == _lookup_existing_pid(store, first, meta.gender)
    IN  IF Len(words) >= 2 THEN {PidOf("FULLNAME", words, meta.gender, "")}
        ELSE IF found # {} THEN found
        ELSE IF Len(meta.phone) >= 8
             THEN {PidOf("TRUNCATED", <<first>>, meta.gender, meta.phone)}
             ELSE {PidOf("FIRST", <<first>>, meta.gender, Decade(meta.age))}

\* process_pdf: the rows of one document, for the identifier pid.
process_pdf(f, pid) ==
    LET meta == extract_metadata(f)
    IN  MapSeq(extract_biomarkers(f), LAMBDA b :
            [test_name |-> b.test_name, value |-> b.value, unit |-> b.unit,
             status |-> b.status, patient_id |-> pid, patient_name |-> meta.name,
             gender |-> meta.gender, report_date |-> meta.date,
             file_hash |-> file_hash(f), llm_verified |-> FALSE,
             llm_corrected |-> FALSE])

\* is_duplicate_file: some stored row carries the digest of these bytes.
is_duplicate_file(store, f) ==
    \E p \in DOMAIN store : \E i \in 1..Len(store[p]) : store[p][i].file_hash = file_hash(f)

\* ------------------------------------------------------------ patient store
TestDate(r) == <<r.test_name, r.report_date>>
DateTest(r) == <<r.report_date, r.test_name>>

WithDate(rows, d) == MapSeq(rows, LAMBDA r : [r EXCEPT !.report_date = d])
WithName(rows, n) == MapSeq(rows, LAMBDA r : [r EXCEPT !.patient_name = n])

\* save_report(df): the store after the call.
save_report(store, df) ==
    IF df = <<>> THEN store
    ELSE LET pid == df[1].patient_id
             existing == read_csv(store[pid])
             existing_name == IF existing # <<>> THEN existing[1].patient_name ELSE <<>>
             new_name == df[1].patient_name
             renamed == IF NameLen(new_name) > NameLen(existing_name)
                        THEN WithName(existing, new_name) ELSE existing
             combined == IF pid \in DOMAIN store THEN renamed \o df ELSE df
             written == to_csv(sort_values(drop_duplicates(combined, TestDate)))
         IN  [p \in DOMAIN store \cup {pid} |-> IF p = pid THEN written ELSE store[p]]

\* rename_patient(patient_id, new_name)
rename_patient(store, pid, new_name) ==
    IF pid \notin DOMAIN store THEN store
    ELSE [store EXCEPT ![pid] = to_csv(WithName(read_csv(@), new_name))]

\* merge_into_patient without the test that the target exists.
merge_into_patient_unchecked(store, source_id, target_id) ==
    IF source_id \notin DOMAIN store THEN store
    ELSE [p \in DOMAIN store \ {source_id} |-> store[p]]

\* merge_into_patient(source_id, target_id)
merge_into_patient(store, source_id, target_id) ==
    IF source_id \notin DOMAIN store \/ target_id \notin DOMAIN store THEN store
    ELSE LET source_df == read_csv(store[source_id])
             target_df == read_csv(store[target_id])
             moved == MapSeq(source_df, LAMBDA r :
                         [r EXCEPT !.patient_id = target_id,
                                   !.patient_name = target_df[1].patient_name])
             combined == drop_duplicates(target_df \o moved, DateTest)
         IN  [p \in DOMAIN store \ {source_id} |->
                 IF p = target_id THEN to_csv(combined) ELSE store[p]]

\* delete_patient(patient_id)
delete_patient(store, pid) == [p \in DOMAIN store \ {pid} |-> store[p]]

\* delete_report_by_date writing the filtered frame even when it is empty.
delete_report_by_date_keeps_file(store, pid, date) ==
    IF pid \notin DOMAIN store THEN store
    ELSE [store EXCEPT ![pid] =
            SelectSeq(@, LAMBDA r : Prefix10(r.report_date) # Prefix10(date))]

\* delete_report_by_date(patient_id, report_date)
delete_report_by_date(store, pid, date) ==
    IF pid \notin DOMAIN store THEN store
    ELSE LET df == read_csv(store[pid])
             kept == SelectSeq(df, LAMBDA r : Prefix10(r.report_date) # Prefix10(date))
         IN  IF Len(kept) = Len(df) THEN store
             ELSE IF kept = <<>> THEN [p \in DOMAIN store \ {pid} |-> store[p]]
             ELSE [store EXCEPT ![pid] = to_csv(kept)]

\* load_history(patient_id): the rows with report_date parsed (NaT when missing).
load_history(store, pid) ==
    IF pid \notin DOMAIN store THEN <<>>
    ELSE MapSeq(read_csv(store[pid]), LAMBDA r :
            [r EXCEPT !.report_date = ToDatetime(@)])

\* The value each store operation returns (True on success).
rename_patient_ok(store, pid) == pid \in DOMAIN store

merge_into_patient_ok(store, source_id, target_id) ==
    source_id \in DOMAIN store /\ target_id \in DOMAIN store

delete_patient_ok(store, pid) == pid \in DOMAIN store

delete_report_by_date_ok(store, pid, date) ==
    /\ pid \in DOMAIN store
    /\ \E i \in 1..Len(store[pid]) :
          Prefix10(read_csv(store[pid])[i].report_date) = Prefix10(date)

\* ------------------------------------------------------------ audit answers
\* Values are counted in steps of 0.0005, so the 0.001 of build_diff is two steps.
Tolerance == 2

Abs(x) == IF x < 0 THEN 0 - x ELSE x

NoAnswer == [error |-> TRUE, report_date |-> EmptyDate, patient_name |-> <<>>,
             metadata_issues |-> <<>>, verifications |-> <<>>, missed_tests |-> <<>>]

Corrected(row) ==
    [test |-> row.test_name, status |-> "corrected", correct_value |-> row.value + 2000,
     correct_unit |-> "g/dL", confidence |-> "high", range_flag |-> "normal"]

Unsure(row) ==
    [test |-> row.test_name, status |-> "confirmed", correct_value |-> row.value,
     correct_unit |-> row.unit, confidence |-> "low", range_flag |-> "unknown"]

\* Test 2 is in no document of the model: it is the test an audit reports as missed.
Missed == [test |-> 2, value |-> 14000, unit |-> "%", range_flag |-> "normal",
           confidence |-> "high"]

\* What an audit can find besides the report date: nothing, a metadata issue, another
\* patient name, a corrected value, a value it is unsure of, a missed test, or a
\* corrected value and a missed test.
Findings(df) ==
    { [patient_name |-> <<>>, metadata_issues |-> <<>>, verifications |-> <<>>,
       missed_tests |-> <<>>],
      [patient_name |-> <<>>, metadata_issues |-> <<"patient gender not found">>,
       verifications |-> <<>>, missed_tests |-> <<>>],
      [patient_name |-> FullName, metadata_issues |-> <<>>, verifications |-> <<>>,
       missed_tests |-> <<>>],
      [patient_name |-> <<>>, metadata_issues |-> <<>>,
       verifications |-> <<Corrected(df[1])>>, missed_tests |-> <<>>],
      [patient_name |-> <<>>, metadata_issues |-> <<>>,
       verifications |-> <<Unsure(df[1])>>, missed_tests |-> <<>>],
      [patient_name |-> <<>>, metadata_issues |-> <<>>, verifications |-> <<>>,
       missed_tests |-> <<Missed>>],
      [patient_name |-> <<>>, metadata_issues |-> <<>>,
       verifications |-> <<Corrected(df[1])>>, missed_tests |-> <<Missed>>] }

\* The findings an audit that also names a report date can have in the model.
DatedFindings(df) ==
    {x \in Findings(df) : /\ x.patient_name = <<>> /\ x.metadata_issues = <<>>
                          /\ x.missed_tests = <<>>
                          /\ \A i \in 1..Len(x.verifications) :
                                x.verifications[i].status = "corrected"}

LlmResult(d, x) ==
    [error |-> FALSE, report_date |-> d, patient_name |-> x.patient_name,
     metadata_issues |-> x.metadata_issues, verifications |-> x.verifications,
     missed_tests |-> x.missed_tests]

\* verify_with_llm: the results the call can return for the rows df (the answer of
\* the hosted model is not determined by the code): an error, a finding without a
\* report date, or a finding with one.
verify_with_llm(df) ==
    {NoAnswer}
    \cup {LlmResult(EmptyDate, x) : x \in Findings(df)}
    \cup {LlmResult(d, x) : d \in IsoDates, x \in DatedFindings(df)}

\* ------------------------------------------------------------------ diff
InFlagSet(rflag) == rflag \in {"HIGH", "LOW", "CRITICAL_HIGH", "CRITICAL_LOW"}

\* The diff row with needs_review computed without looking at the status.
DiffOfRowAnyStatus(row, llm_result) ==
    LET hits == SelectSeq(llm_result.verifications, LAMBDA v : v.test = row.test_name)
        v == hits[Len(hits)]
    IN  [test_name |-> row.test_name, regex_value |-> row.value,
         llm_value |-> IF hits = <<>> THEN row.value ELSE v.correct_value,
         llm_unit |-> IF hits = <<>> THEN row.unit ELSE v.correct_unit,
         status |-> IF hits = <<>> THEN "confirmed" ELSE v.status,
         range_flag |-> IF hits = <<>> THEN "unknown" ELSE v.range_flag,
         confidence |-> IF hits = <<>> THEN "high" ELSE v.confidence,
         needs_review |-> /\ hits # <<>>
                          /\ \/ v.correct_value # row.value
                             \/ v.confidence = "low"
                             \/ InFlagSet(v.range_flag)]

\* The diff row with needs_review computed without looking at the unit.
DiffOfRowNoUnit(row, llm_result) ==
    LET hits == SelectSeq(llm_result.verifications, LAMBDA v : v.test = row.test_name)
        v == hits[Len(hits)]
    IN  [test_name |-> row.test_name, regex_value |-> row.value,
         llm_value |-> IF hits = <<>> THEN row.value ELSE v.correct_value,
         llm_unit |-> IF hits = <<>> THEN row.unit ELSE v.correct_unit,
         status |-> IF hits = <<>> THEN "confirmed" ELSE v.status,
         range_flag |-> IF hits = <<>> THEN "unknown" ELSE v.range_flag,
         confidence |-> IF hits = <<>> THEN "high" ELSE v.confidence,
         needs_review |-> /\ hits # <<>>
                          /\ \/ /\ v.status = "corrected"
                                /\ v.correct_value # NoValue
                                /\ Abs(v.correct_value - row.value) > Tolerance
                             \/ v.confidence = "low"
                             \/ InFlagSet(v.range_flag)]

\* build_diff: one row of the diff for an extracted row.
DiffOfRow(row, llm_result) ==
    LET hits == SelectSeq(llm_result.verifications, LAMBDA v : v.test = row.test_name)
    IN  IF hits = <<>>
        THEN [test_name |-> row.test_name, regex_value |-> row.value,
              llm_value |-> row.value, llm_unit |-> row.unit, status |-> "confirmed",
              range_flag |-> "unknown", confidence |-> "high", needs_review |-> FALSE]
        ELSE LET v == hits[Len(hits)]
                 value_changed == /\ v.correct_value # NoValue
                                  /\ Abs(v.correct_value - row.value) > Tolerance
                 unit_changed == v.correct_unit # row.unit /\ v.correct_unit # ""
             IN  [test_name |-> row.test_name, regex_value |-> row.value,
                  llm_value |-> v.correct_value, llm_unit |-> v.correct_unit,
                  status |-> v.status, range_flag |-> v.range_flag,
                  confidence |-> v.confidence,
                  needs_review |-> \/ (v.status = "corrected" /\ (value_changed \/ unit_changed))
                                   \/ v.confidence = "low"
                                   \/ InFlagSet(v.range_flag)]

DiffOfMissed(m) ==
    [test_name |-> m.test, regex_value |-> NoValue, llm_value |-> m.value,
     llm_unit |-> m.unit, status |-> "missed_by_regex", range_flag |-> m.range_flag,
     confidence |-> m.confidence, needs_review |-> TRUE]

build_diff(df, llm_result) ==
    IF llm_result.error THEN <<>>
    ELSE MapSeq(df, LAMBDA r : DiffOfRow(r, llm_result))
         \o MapSeq(llm_result.missed_tests, DiffOfMissed)

\* get_metadata_corrections
get_metadata_corrections(df, llm_result) ==
    LET regex_date == IF df # <<>> THEN df[1].report_date ELSE EmptyDate
        llm_date == llm_result.report_date
        regex_name == IF df # <<>> THEN df[1].patient_name ELSE <<>>
        llm_name == llm_result.patient_name
    IN  [date_correction |->
            IF llm_date # EmptyDate /\ (regex_date = EmptyDate \/ llm_date # Prefix10(regex_date))
            THEN llm_date ELSE EmptyDate,
         name_correction |->
            IF llm_name # <<>> /\ llm_name # regex_name THEN llm_name ELSE <<>>,
         metadata_issues |-> llm_result.metadata_issues]

NoMeta == [date_correction |-> EmptyDate, name_correction |-> <<>>]

\* apply_corrections(df, diff, accepted_tests, meta_corrections)
apply_corrections(df, diff, accepted_tests, meta) ==
    IF diff = <<>> THEN df
    ELSE LET dated == IF meta.date_correction # EmptyDate
                      THEN WithDate(df, meta.date_correction) ELSE df
             named == IF meta.name_correction # <<>>
                      THEN WithName(dated, meta.name_correction) ELSE dated
             InMap(t) == \E i \in 1..Len(diff) :
                            /\ diff[i].test_name = t /\ t \in accepted_tests
                            /\ diff[i].status \in {"corrected", "missed_by_regex"}
                            /\ diff[i].llm_value # NoValue
             \* a later diff row of the same test replaces an earlier one in the map
             Last(t) == CHOOSE i \in 1..Len(diff) :
                            /\ diff[i].test_name = t
                            /\ diff[i].status \in {"corrected", "missed_by_regex"}
                            /\ diff[i].llm_value # NoValue
                            /\ \A j \in (i + 1)..Len(diff) :
                                  ~(/\ diff[j].test_name = t
                                    /\ diff[j].status \in {"corrected", "missed_by_regex"}
                                    /\ diff[j].llm_value # NoValue)
             fixed == MapSeq(named, LAMBDA r :
                         IF InMap(r.test_name)
                         THEN [r EXCEPT !.value = diff[Last(r.test_name)].llm_value,
                                        !.unit = diff[Last(r.test_name)].llm_unit,
                                        !.llm_verified = TRUE, !.llm_corrected = TRUE]
                         ELSE r)
             missed_accepted == SelectSeq(diff, LAMBDA m :
                         m.status = "missed_by_regex" /\ m.test_name \in accepted_tests)
             new_rows == MapSeq(missed_accepted, LAMBDA m :
                         [fixed[1] EXCEPT !.test_name = m.test_name, !.value = m.llm_value,
                                          !.unit = m.llm_unit, !.status = Unknown,
                                          !.llm_verified = TRUE, !.llm_corrected = TRUE])
         IN  IF missed_accepted # <<>> /\ df # <<>> THEN fixed \o new_rows ELSE fixed

\* ------------------------------------------------------ pending-review store
\* The file name of a review: "<patient_id>_<YYYYMMDD>.json".
ReviewPath(pid, report_date) == <<pid, Prefix10(report_date)>>

\* save_pending_review
save_pending_review(pending, pid, report_date, diff, meta) ==
    [k \in DOMAIN pending \cup {ReviewPath(pid, report_date)} |->
        IF k = ReviewPath(pid, report_date)
        THEN [patient_id |-> pid, report_date |-> Prefix10(report_date),
              diff |-> diff, meta_corrections |-> meta]
        ELSE pending[k]]

\* delete_pending_review
delete_pending_review(pending, pid, report_date) ==
    [k \in DOMAIN pending \ {ReviewPath(pid, report_date)} |-> pending[k]]

\* -------------------------------------------------------------------- state
VARIABLES
    profiles,      \* STORE_DIR: patient_id -> the rows of <patient_id>.csv
    pending,       \* REVIEW_DIR: review path -> the stored review
    llm_enabled,   \* app.py: bool(api_key), fixed when the process starts
    ui,            \* what the last interaction did and showed
    decided,       \* review path -> the items the user has accepted or rejected so far
    uploaded,      \* the documents the user has submitted so far
    ops,           \* how many interactions of each kind have run (model bound)
    sessions       \* session -> where its call of save_report stands (concurrent sessions)

vars == <<profiles, pending, llm_enabled, ui, decided, uploaded, ops, sessions>>

Init ==
    /\ profiles = <<>>
    /\ pending = <<>>
    /\ uploaded = {}
    /\ llm_enabled \in BOOLEAN
    /\ ui = [page |-> "start", kind |-> "idle"]
    /\ decided = <<>>
    /\ ops = [uploads |-> 0, decisions |-> 0, admin |-> 0]
    /\ sessions = <<>>

\* ------------------------------------------------------- Upload Reports page
Flagged(diff) == SelectSeq(diff, LAMBDA r : r.needs_review)

UploadUi(f, override, kind, pid, claude_date, stored_date) ==
    [page |-> "upload", kind |-> kind, file |-> f, again |-> f \in uploaded,
     override |-> override, pid |-> pid,
     claude_date |-> claude_date, stored_date |-> stored_date]

\* A review that is written (again) starts with no decision taken.
Undecided(was, now, path) ==
    [k \in DOMAIN now |-> IF k \in DOMAIN was /\ k # path THEN was[k] ELSE {}]

Steps == ops.uploads + ops.decisions + ops.admin

\* Model bound: one more upload.
CountUpload(f) ==
    /\ Steps < MaxOps
    /\ ops.uploads < MaxUploads
    /\ ops' = [ops EXCEPT !.uploads = @ + 1]
    /\ uploaded' = uploaded \cup {f}
    /\ UNCHANGED <<llm_enabled, sessions>>

\* The body of the loop over uploaded_files for one document: the duplicate gate.
UploadDuplicate(f, override) ==
    /\ CountUpload(f)
    /\ is_duplicate_file(profiles, f)
    /\ ui' = UploadUi(f, override, "duplicate", <<>>, EmptyDate, EmptyDate)
    /\ UNCHANGED <<profiles, pending, decided>>

\* ... the document yields no rows.
UploadNoData(f, override) ==
    /\ CountUpload(f)
    /\ ~is_duplicate_file(profiles, f)
    /\ extract_biomarkers(f) = <<>>
    /\ ui' = UploadUi(f, override, "no_data", <<>>, EmptyDate, EmptyDate)
    /\ UNCHANGED <<profiles, pending, decided>>

\* ... auditing is off: the rows are saved as extracted.
UploadUnaudited(f, override) ==
    /\ CountUpload(f)
    /\ ~is_duplicate_file(profiles, f)
    /\ extract_biomarkers(f) # <<>>
    /\ ~llm_enabled
    /\ \E pid \in make_patient_id(profiles, extract_metadata(f)) :
          LET df0 == process_pdf(f, pid)
              df == IF override # EmptyDate THEN WithDate(df0, override) ELSE df0
          IN  /\ profiles' = save_report(profiles, df)
              /\ ui' = UploadUi(f, override, "saved", pid, EmptyDate, df[1].report_date)
    /\ UNCHANGED <<pending, decided>>

\* A variant of the audit-error branch that keeps the warning and drops the rows.
UploadAuditErrorUnsaved(f, override) ==
    /\ CountUpload(f)
    /\ ~is_duplicate_file(profiles, f)
    /\ extract_biomarkers(f) # <<>>
    /\ llm_enabled
    /\ \E pid \in make_patient_id(profiles, extract_metadata(f)) :
          LET df0 == process_pdf(f, pid)
              df == IF override # EmptyDate THEN WithDate(df0, override) ELSE df0
          IN  /\ NoAnswer \in verify_with_llm(df)
              /\ ui' = UploadUi(f, override, "llm_failed", pid, EmptyDate, df[1].report_date)
    /\ UNCHANGED <<profiles, pending, decided>>

\* ... auditing is on and the call to the hosted model fails.
UploadAuditError(f, override) ==
    /\ CountUpload(f)
    /\ ~is_duplicate_file(profiles, f)
    /\ extract_biomarkers(f) # <<>>
    /\ llm_enabled
    /\ \E pid \in make_patient_id(profiles, extract_metadata(f)) :
          LET df0 == process_pdf(f, pid)
              df == IF override # EmptyDate THEN WithDate(df0, override) ELSE df0
          IN  /\ NoAnswer \in verify_with_llm(df)
              /\ profiles' = save_report(profiles, df)
              /\ ui' = UploadUi(f, override, "llm_failed", pid, EmptyDate, df[1].report_date)
    /\ UNCHANGED <<pending, decided>>

\* ... auditing is on and the hosted model answers.
UploadAudited(f, override) ==
    /\ CountUpload(f)
    /\ ~is_duplicate_file(profiles, f)
    /\ extract_biomarkers(f) # <<>>
    /\ llm_enabled
    /\ \E pid \in make_patient_id(profiles, extract_metadata(f)) :
          LET df0 == process_pdf(f, pid)
              df1 == IF override # EmptyDate THEN WithDate(df0, override) ELSE df0
          IN  \E llm_result \in verify_with_llm(df1) :
                 /\ ~llm_result.error
                 /\ LET diff == build_diff(df1, llm_result)
                        meta0 == get_metadata_corrections(df1, llm_result)
                        auto == meta0.date_correction # EmptyDate /\ override = EmptyDate
                        df2 == IF auto THEN WithDate(df1, meta0.date_correction) ELSE df1
                        meta_corr == IF auto THEN [meta0 EXCEPT !.date_correction = EmptyDate]
                                     ELSE meta0
                        n_flags == Len(Flagged(diff))
                        has_meta == \/ meta_corr.date_correction # EmptyDate
                                    \/ meta_corr.name_correction # <<>>
                                    \/ meta_corr.metadata_issues # <<>>
                        claude == IF auto THEN meta0.date_correction ELSE EmptyDate
                    IN  IF n_flags = 0 /\ ~has_meta
                        THEN /\ profiles' = save_report(profiles,
                                    MapSeq(df2, LAMBDA r : [r EXCEPT !.llm_verified = TRUE]))
                             /\ UNCHANGED <<pending, decided>>
                             /\ ui' = UploadUi(f, override, "all_confirmed", pid, claude,
                                            df2[1].report_date)
                        ELSE /\ profiles' = save_report(profiles, df2)
                             /\ pending' = save_pending_review(pending, pid,
                                               df2[1].report_date, diff, meta_corr)
                             /\ decided' = Undecided(decided, pending',
                                               ReviewPath(pid, df2[1].report_date))
                             /\ ui' = UploadUi(f, override, "needs_review", pid, claude,
                                            df2[1].report_date)

\* ----------------------------------------------------------- LLM Review page
TestsOf(rows) == {rows[i].test_name : i \in 1..Len(rows)}

TotalItems(review) ==
    Len(Flagged(review.diff))
    + (IF review.meta_corrections.date_correction # EmptyDate THEN 1 ELSE 0)
    + (IF review.meta_corrections.name_correction # <<>> THEN 1 ELSE 0)
    + Len(review.meta_corrections.metadata_issues)

\* The buttons the page draws for one review.
Buttons(review) ==
    (IF review.meta_corrections.date_correction # EmptyDate
     THEN {[b |-> "acc_date", test |-> 0], [b |-> "rej_date", test |-> 0]} ELSE {})
    \cup (IF review.meta_corrections.name_correction # <<>>
          THEN {[b |-> "acc_name", test |-> 0], [b |-> "rej_name", test |-> 0]} ELSE {})
    \cup {[b |-> k, test |-> t] : k \in {"acc", "rej"}, t \in TestsOf(Flagged(review.diff))}
    \cup (IF Flagged(review.diff) # <<>>
          THEN {[b |-> "acc_all", test |-> 0], [b |-> "rej_all", test |-> 0]} ELSE {})

\* DataFrame.to_csv of the report_date column after the review page has put the
\* rows together: a datetime64 column is written as dates; a column that mixes
\* Timestamps with the string of an accepted date correction is written cell by
\* cell, a Timestamp as "YYYY-MM-DD 00:00:00".
WriteDatetimeCell(t) == IF t = NaT THEN EmptyDate ELSE Iso(t)
WriteObjectCell(t) == IF t = NaT THEN EmptyDate ELSE Ts(t)

\* The rows written to <pid>.csv when a decision is applied.
RewriteProfile(cur_hist, review, accepted_tests, eff_meta) ==
    LET report_df == SelectSeq(cur_hist, LAMBDA r :
                        Strftime(r.report_date) = review.report_date)
        other == SelectSeq(cur_hist, LAMBDA r :
                        Strftime(r.report_date) # review.report_date)
        corrected == apply_corrections(report_df, review.diff, accepted_tests, eff_meta)
    IN  IF eff_meta.date_correction # EmptyDate
        THEN MapSeq(other, LAMBDA r : [r EXCEPT !.report_date = WriteObjectCell(@)])
             \o corrected
        ELSE MapSeq(other \o corrected, LAMBDA r :
                        [r EXCEPT !.report_date = WriteDatetimeCell(@)])

\* One rerun of the page in which the user pressed `button` of the review at `key`.
Decide(key, button) ==
    /\ Steps < MaxOps
    /\ ops.decisions < MaxDecisions
    /\ ops' = [ops EXCEPT !.decisions = @ + 1]
    /\ UNCHANGED <<llm_enabled, uploaded, sessions>>
    /\ LET review == pending[key]
           pid == review.patient_id
           flagged == TestsOf(Flagged(review.diff))
           accepted_tests == IF button.b = "acc" THEN {button.test}
                             ELSE IF button.b = "acc_all" THEN flagged ELSE {}
           rejected_tests == IF button.b = "rej" THEN {button.test}
                             ELSE IF button.b = "rej_all" THEN flagged ELSE {}
           date_correction == review.meta_corrections.date_correction
           name_correction == review.meta_corrections.name_correction
           eff_meta == [date_correction |-> IF button.b = "acc_date" THEN date_correction
                                            ELSE EmptyDate,
                        name_correction |-> IF button.b = "acc_name" THEN name_correction
                                            ELSE <<>>]
           cur_hist == load_history(profiles, pid)
           report_df == SelectSeq(cur_hist, LAMBDA r :
                           Strftime(r.report_date) = review.report_date)
           writes == report_df # <<>> /\ (accepted_tests # {} \/ eff_meta # NoMeta)
           remaining == flagged \ (accepted_tests \cup rejected_tests)
           date_done == button.b \in {"acc_date", "rej_date"} \/ date_correction = EmptyDate
           name_done == button.b \in {"acc_name", "rej_name"} \/ name_correction = <<>>
           resolved == remaining = {} /\ date_done /\ name_done
           pressed == {<<"test", t>> : t \in accepted_tests \cup rejected_tests}
                      \cup (IF button.b \in {"acc_date", "rej_date"} THEN {<<"date", 0>>} ELSE {})
                      \cup (IF button.b \in {"acc_name", "rej_name"} THEN {<<"name", 0>>} ELSE {})
       IN  IF pid \notin DOMAIN profiles
           THEN \* load_history returns an empty frame and cur_hist["report_date"] raises
                /\ ui' = [page |-> "review", kind |-> "exception", key |-> key,
                          accepted |-> accepted_tests, deleted |-> FALSE]
                /\ decided' = [decided EXCEPT ![key] = @ \cup pressed]
                /\ UNCHANGED <<profiles, pending>>
           ELSE /\ profiles' = IF writes
                               THEN [profiles EXCEPT ![pid] =
                                       RewriteProfile(cur_hist, review, accepted_tests, eff_meta)]
                               ELSE profiles
                /\ pending' = IF resolved
                              THEN delete_pending_review(pending, pid, review.report_date)
                              ELSE pending
                /\ decided' = [k \in DOMAIN pending' |->
                                   IF k = key THEN decided[k] \cup pressed ELSE decided[k]]
                /\ ui' = [page |-> "review", kind |-> IF writes THEN "applied" ELSE "no_write",
                          key |-> key, accepted |-> accepted_tests, deleted |-> resolved]

\* ------------------------------------------------------ Patient Profiles page
\* list_patients: the profiles the page offers, with the name of the first row.
list_patients(store) ==
    {[patient_id |-> p, patient_name |-> store[p][1].patient_name,
      gender |-> store[p][1].gender] : p \in {q \in DOMAIN store : store[q] # <<>>}}

Patients == {p.patient_id : p \in list_patients(profiles)}

\* The dates the "Delete a report" selector offers.
ReportDates(pid) ==
    LET history == load_history(profiles, pid)
    IN  {Strftime(history[i].report_date) : i \in 1..Len(history)} \ {NaN}

NameInputs == {OtherName}

AdminUi(kind, pid) == [page |-> "profiles", kind |-> kind, pid |-> pid]

\* Model bound: one more action of the Patient Profiles page.
CountAdmin ==
    /\ Steps < MaxOps
    /\ ops.admin < MaxAdminOps
    /\ ops' = [ops EXCEPT !.admin = @ + 1]
    /\ UNCHANGED <<pending, llm_enabled, decided, uploaded, sessions>>

\* "Save" of the rename row with a name that differs from the current one.
Rename(pid, new_name) ==
    /\ CountAdmin
    /\ new_name # <<>>
    /\ new_name # profiles[pid][1].patient_name
    /\ profiles' = rename_patient(profiles, pid, new_name)
    /\ ui' = AdminUi("renamed", pid)

\* "Merge" of the selected profile into another listed profile.
Merge(source_id, target_id) ==
    /\ CountAdmin
    /\ source_id # target_id
    /\ profiles' = merge_into_patient(profiles, source_id, target_id)
    /\ ui' = AdminUi("merged", source_id)

\* "Delete" of one report date of the selected profile.
DeleteReport(pid, date) ==
    /\ CountAdmin
    /\ profiles' = delete_report_by_date(profiles, pid, date)
    /\ ui' = AdminUi("report_deleted", pid)

\* "Delete Patient" of the selected profile.
DeletePatient(pid) ==
    /\ CountAdmin
    /\ profiles' = delete_patient(profiles, pid)
    /\ ui' = AdminUi("patient_deleted", pid)

Overrides == {EmptyDate} \cup IsoDates

Next ==
    \/ \E f \in Files, override \in Overrides : UploadDuplicate(f, override)
    \/ \E f \in Files, override \in Overrides : UploadNoData(f, override)
    \/ \E f \in Files, override \in Overrides : UploadUnaudited(f, override)
    \/ \E f \in Files, override \in Overrides : UploadAuditError(f, override)
    \/ \E f \in Files, override \in Overrides : UploadAudited(f, override)
    \/ \E key \in DOMAIN pending : \E button \in Buttons(pending[key]) : Decide(key, button)
    \/ \E pid \in Patients, n \in NameInputs : Rename(pid, n)
    \/ \E pid \in Patients, target \in Patients : Merge(pid, target)
    \/ \E pid \in Patients : \E d \in ReportDates(pid) : DeleteReport(pid, d)
    \/ \E pid \in Patients : DeletePatient(pid)

Spec == Init /\ [][Next]_vars

\* ------------------------------------------------- the patient store alone
\* The operations of the patient store called directly, with any argument, on the
\* stores that unaudited saves of documents build up.
StoreFiles == Files \cup {"f.pdf", "g.pdf", "h.pdf"}

\* The identifiers a call can name: those the documents get, and one never stored.
AllPids ==
    { PidOf("FULLNAME", FullName, "M", ""), PidOf("FIRST", <<"SRINIWAS">>, "M", "30"),
      PidOf("FULLNAME", OtherName, "F", ""), PidOf("FULLNAME", <<"NO", "ONE">>, "F", ""),
      PidOf("FULLNAME", FullName, "", ""), PidOf("FIRST", <<"SRINIWAS">>, "", "30") }

StoreInit ==
    /\ profiles = <<>>
    /\ pending = <<>>
    /\ uploaded = {}
    /\ llm_enabled = FALSE
    /\ ui = [page |-> "start", kind |-> "idle"]
    /\ decided = <<>>
    /\ ops = [uploads |-> 0, decisions |-> 0, admin |-> 0]
    /\ sessions = <<>>

StoreUi(kind, args, ok) == [page |-> "store", kind |-> kind, args |-> args, ok |-> ok]

\* Model bound: one more call.
CountStore ==
    /\ ops.admin < MaxStoreOps
    /\ ops' = [ops EXCEPT !.admin = @ + 1]
    /\ UNCHANGED <<pending, llm_enabled, decided, uploaded, sessions>>

\* A document passes the duplicate gate and its rows are saved.
StoreSave(f, override) ==
    /\ CountStore
    /\ ~is_duplicate_file(profiles, f)
    /\ extract_biomarkers(f) # <<>>
    /\ \E pid \in make_patient_id(profiles, extract_metadata(f)) :
          LET df0 == process_pdf(f, pid)
              df == IF override # EmptyDate THEN WithDate(df0, override) ELSE df0
          IN  /\ profiles' = save_report(profiles, df)
              /\ ui' = StoreUi("save_report", <<pid, f, override>>, TRUE)

StoreRename(pid, new_name) ==
    /\ CountStore
    /\ profiles' = rename_patient(profiles, pid, new_name)
    /\ ui' = StoreUi("rename_patient", <<pid, new_name>>, rename_patient_ok(profiles, pid))

StoreMerge(source_id, target_id) ==
    /\ CountStore
    /\ profiles' = merge_into_patient(profiles, source_id, target_id)
    /\ ui' = StoreUi("merge_into_patient", <<source_id, target_id>>,
                     merge_into_patient_ok(profiles, source_id, target_id))

StoreDeletePatient(pid) ==
    /\ CountStore
    /\ profiles' = delete_patient(profiles, pid)
    /\ ui' = StoreUi("delete_patient", <<pid>>, delete_patient_ok(profiles, pid))

StoreDeleteReport(pid, date) ==
    /\ CountStore
    /\ profiles' = delete_report_by_date(profiles, pid, date)
    /\ ui' = StoreUi("delete_report_by_date", <<pid, date>>,
                     delete_report_by_date_ok(profiles, pid, date))

StoreNext ==
    \/ \E f \in StoreFiles, override \in Overrides : StoreSave(f, override)
    \/ \E pid \in AllPids, n \in NameInputs : StoreRename(pid, n)
    \/ \E s \in AllPids, t \in AllPids : StoreMerge(s, t)
    \/ \E pid \in AllPids : StoreDeletePatient(pid)
    \/ \E pid \in AllPids, d \in IsoDates : StoreDeleteReport(pid, d)

StoreSpec == StoreInit /\ [][StoreNext]_vars


\* ------------------------------------------------------------ status flags
\* A string of the normal_range column, as the sequence of its tokens: a number (in
\* thousandths) or a symbol.
Num(n) == [sym |-> "num", num |-> n]
Sym(c) == [sym |-> c, num |-> 0]

\* "low-high", without and with blanks around the hyphen.
RangeString(low, high) == <<Num(low), Sym("-"), Num(high)>>
SpacedRangeString(low, high) == <<Num(low), Sym(" "), Sym("-"), Sym(" "), Num(high)>>

\* str.strip()
Strip(s) ==
    LET inner == {i \in 1..Len(s) : s[i].sym # " "}
    IN  IF inner = {} THEN <<>>
        ELSE SubSeq(s, CHOOSE i \in inner : \A j \in inner : i <= j,
                       CHOOSE i \in inner : \A j \in inner : j <= i)

\* float(text): the number, or a ValueError when the text is not one number.
IsFloat(s) == Len(Strip(s)) = 1 /\ Strip(s)[1].sym = "num"
Float(s) == Strip(s)[1].num

\* _parse_range(s): (low, high) with NoValue for None; "error" when float() raises.
_parse_range(s0) ==
    LET s == Strip(s0)
        blanks == {i \in 1..Len(s) : s[i].sym = " "}
        t == SelectSeq(s, LAMBDA x : x.sym # " ")
        Bound(rest, lower) ==
            IF ~IsFloat(rest) THEN [error |-> TRUE, low |-> NoValue, high |-> NoValue]
            ELSE IF lower THEN [error |-> FALSE, low |-> Float(rest), high |-> NoValue]
            ELSE [error |-> FALSE, low |-> NoValue, high |-> Float(rest)]
    IN  IF s = <<>> THEN [error |-> FALSE, low |-> NoValue, high |-> NoValue]
        ELSE IF /\ Len(t) = 3 /\ t[1].sym = "num" /\ t[2].sym = "-" /\ t[3].sym = "num"
                /\ s[1].sym = "num" /\ s[Len(s)].sym = "num"
             THEN [error |-> FALSE, low |-> t[1].num, high |-> t[3].num]
        ELSE IF s[1].sym \in {">=", ">"} THEN Bound(Tail(s), TRUE)
        ELSE IF s[1].sym \in {"<=", "<"} THEN Bound(Tail(s), FALSE)
        ELSE [error |-> FALSE, low |-> NoValue, high |-> NoValue]

\* _parse_range of app.py (the dashboard): every ValueError is caught; the first
\* separator found in the text, en dash before hyphen, splits it once.
_parse_range_app(s0) ==
    LET s == Strip(s0)
        none == [error |-> FALSE, low |-> NoValue, high |-> NoValue]
        Bound(rest, lower) ==
            IF ~IsFloat(rest) THEN none
            ELSE IF lower THEN [error |-> FALSE, low |-> Float(rest), high |-> NoValue]
            ELSE [error |-> FALSE, low |-> NoValue, high |-> Float(rest)]
        Split(sep) ==
            LET at == CHOOSE i \in 1..Len(s) :
                          s[i].sym = sep /\ \A j \in 1..(i - 1) : s[j].sym # sep
                a == SubSeq(s, 1, at - 1)
                b == SubSeq(s, at + 1, Len(s))
            IN  IF IsFloat(a) /\ IsFloat(b)
                THEN [error |-> FALSE, low |-> Float(a), high |-> Float(b)]
                ELSE none
    IN  IF s = <<>> THEN none
        ELSE IF s[1].sym \in {"<=", "<"} THEN Bound(Tail(s), FALSE)
        ELSE IF s[1].sym \in {">=", ">"} THEN Bound(Tail(s), TRUE)
        ELSE IF \E i \in 1..Len(s) : s[i].sym = "en dash" THEN Split("en dash")
        ELSE IF \E i \in 1..Len(s) : s[i].sym = "-" THEN Split("-")
        ELSE IF IsFloat(s) THEN [error |-> FALSE, low |-> Float(s), high |-> Float(s)]
        ELSE none

\* str.lower() of the units of the model.
Lower(u) == IF u = "mg/dL" THEN "mg/dl" ELSE IF u = "ng/mL" THEN "ng/ml" ELSE u

\* UNIT_CONVERSIONS: the factor as <<numerator, denominator>>, <<1, 1>> when the pair
\* of units is not in the table.
UNIT_CONVERSIONS(from_unit, to_unit) ==
    CASE from_unit = "ng/ml" /\ to_unit = "ng/dl" -> <<10, 1>>
      [] from_unit = "ng/dl" /\ to_unit = "ng/ml" -> <<1, 10>>
      [] from_unit = "ug/dl" /\ to_unit = "ug/ml" -> <<1, 100>>
      [] from_unit = "ug/ml" /\ to_unit = "ug/dl" -> <<100, 1>>
      [] OTHER -> <<1, 1>>

\* _convert_value(value, from_unit, to_unit)
_convert_value(value, from_unit, to_unit) ==
    LET factor == UNIT_CONVERSIONS(Lower(from_unit), Lower(to_unit))
    IN  (value * factor[1]) \div factor[2]

\* The loop of flag_status over sex_rows that stops at the first row at all.
RECURSIVE MatchRowFirstWins(_, _, _, _)
MatchRowFirstWins(rows, g, i, matched) ==
    IF i > Len(rows) THEN matched
    ELSE IF rows[i].sex = "both" THEN <<rows[i]>>
    ELSE IF (rows[i].sex = "male" /\ g = "M") \/ (rows[i].sex = "female" /\ g = "F")
         THEN <<rows[i]>>
    ELSE MatchRowFirstWins(rows, g, i + 1, matched)

\* The loop of flag_status over sex_rows: a "both" row is kept and the loop goes on, a
\* row of the patient's sex is kept and the loop stops.  <<>> stands for None.
RECURSIVE MatchRow(_, _, _, _)
MatchRow(rows, g, i, matched) ==
    IF i > Len(rows) THEN matched
    ELSE IF rows[i].sex = "both" THEN MatchRow(rows, g, i + 1, <<rows[i]>>)
    ELSE IF (rows[i].sex = "male" /\ g = "M") \/ (rows[i].sex = "female" /\ g = "F")
         THEN <<rows[i]>>
    ELSE MatchRow(rows, g, i + 1, matched)

\* flag_status(canonical, value, extracted_unit, gender) with the dictionary
\* BIOMARKERS = biomarkers; "LOW" and "HIGH" stand for the labels with an arrow.
flag_status(biomarkers, canonical, value, extracted_unit, gender) ==
    IF canonical \notin DOMAIN biomarkers THEN Unknown
    ELSE LET bm == biomarkers[canonical]
             matched == MatchRow(bm.sex_rows, gender, 1, <<>>)
         IN  IF matched = <<>> THEN Unknown
             ELSE LET compare_value == _convert_value(value, extracted_unit, bm.unit)
                      range == _parse_range(matched[1].normal_range)
                  IN  IF range.error THEN "ValueError"
                      ELSE IF range.low # NoValue /\ compare_value < range.low THEN "LOW"
                      ELSE IF range.high # NoValue /\ compare_value > range.high THEN "HIGH"
                      ELSE "Normal"

\* ------------------------------------------------- extraction from the text
\* A line of the text is a sequence of tokens.  A token is a word, with the number
\* its digits spell if it has digits ("a1c": 1), or a number written alone, with the
\* unit that follows it if one does.  Numbers are in thousandths.
W(w) == [w |-> w, n |-> NoValue, u |-> ""]
Wn(w, n) == [w |-> w, n |-> n, u |-> ""]
V(n, u) == [w |-> "", n |-> n, u |-> u]
U(u) == [w |-> "", n |-> NoValue, u |-> u]

\* EXTRA_ALIASES, in the order of the source: the entries of HbA1c and Haemoglobin.
EXTRA_ALIASES ==
    << [alias |-> <<"hb", "a1c">>, canonical |-> "HbA1c"],
       [alias |-> <<"glycated", "haemoglobin">>, canonical |-> "HbA1c"],
       [alias |-> <<"haemoglobin">>, canonical |-> "Haemoglobin"],
       [alias |-> <<"hb">>, canonical |-> "Haemoglobin"] >>

\* The entry load_dictionary registers for a test that only EXTRA_ALIASES names.
BIOMARKERS ==
    [t \in {"HbA1c", "Haemoglobin"} |->
        [unit |-> "", sex_rows |-> <<[sex |-> "both", normal_range |-> <<>>]>>]]

\* sorted(alias_map.keys(), key=len, reverse=True): the longest alias first, aliases
\* of one length in the order of the map.
RECURSIVE InsertByLen(_, _)
InsertByLen(s, a) ==
    IF s = <<>> THEN <<a>>
    ELSE IF NameLen(a.alias) > NameLen(Head(s).alias) THEN <<a>> \o s
    ELSE <<Head(s)>> \o InsertByLen(Tail(s), a)

RECURSIVE SortedByLen(_)
SortedByLen(s) ==
    IF s = <<>> THEN <<>>
    ELSE InsertByLen(SortedByLen(SubSeq(s, 1, Len(s) - 1)), s[Len(s)])

_ALL_ALIASES == SortedByLen(EXTRA_ALIASES)

\* normalize_unit
normalize_unit(u) == IF u = "g/dl" THEN "g/dL" ELSE u

\* The words of the lines extract_biomarkers skips.
NoiseWords == {"interpretation", "method:", "upto"}

\* A line that is blank, explains or annotates, or names a test code.
SkippedLine(line) ==
    \/ line = <<>>
    \/ \E i \in 1..Len(line) : line[i].w \in NoiseWords
    \/ line[1].w = "1."
    \/ \E i \in 1..Len(line) : line[i].w = "(H0018)"

\* pattern.search(lower) for an alias: the place of the last token of the first
\* occurrence of the alias as whole words, 0 when there is none.
MatchEnd(line, alias) ==
    LET starts == {p \in 1..(Len(line) - Len(alias) + 1) :
                      \A k \in 1..Len(alias) : line[p + k - 1].w = alias[k]}
    IN  IF starts = {} THEN 0
        ELSE (CHOOSE p \in starts : \A q \in starts : p <= q) + Len(alias) - 1

NotFound == [found |-> FALSE, value |-> NoValue, unit |-> ""]

\* find_value_in_text(text, pos): the first number followed by a unit; failing that,
\* the first digits of the rest of the line.  (No line of the model is longer than
\* the 100 characters searched or holds a qualitative result.)
find_value_in_text(line, pos) ==
    LET with_unit == {i \in (pos + 1)..Len(line) : line[i].n # NoValue /\ line[i].u # ""}
        digits == {i \in (pos + 1)..Len(line) : line[i].n # NoValue}
        First(set) == CHOOSE i \in set : \A j \in set : i <= j
        m == IF with_unit # {} THEN First(with_unit) ELSE First(digits)
    IN  IF digits = {} THEN NotFound
        ELSE IF line[m].n >= 1000000 * 1000 THEN NotFound
        ELSE [found |-> TRUE, value |-> line[m].n, unit |-> normalize_unit(line[m].u)]

\* The value of the alias that ends at pos of line i: on the line, else on one of the
\* two lines below; a unit alone on one of the two lines below completes it.
ValueFor(lines, i, pos) ==
    LET Below(k) == IF i + k <= Len(lines) THEN lines[i + k] ELSE <<>>
        Ahead(k) == IF i + k <= Len(lines)
                       /\ ~(\E j \in 1..Len(lines[i + k]) : lines[i + k][j].w \in NoiseWords)
                    THEN find_value_in_text(lines[i + k], 0) ELSE NotFound
        here == find_value_in_text(lines[i], pos)
        found == IF here.found THEN here
                 ELSE IF Ahead(1).found THEN Ahead(1) ELSE Ahead(2)
        UnitLine(k) == Len(Below(k)) = 1 /\ Below(k)[1] = U(Below(k)[1].u) /\ Below(k)[1].u # ""
    IN  IF found.found /\ found.unit = ""
        THEN IF UnitLine(1) THEN [found EXCEPT !.unit = normalize_unit(Below(1)[1].u)]
             ELSE IF UnitLine(2) THEN [found EXCEPT !.unit = normalize_unit(Below(2)[1].u)]
             ELSE found
        ELSE found

\* The aliases tried whatever has been captured.
EveryAlias(aliases, seen) == aliases

\* `if canonical in seen: continue`
Unseen(aliases, seen) == SelectSeq(aliases, LAMBDA a : a.canonical \notin seen)

\* The inner loop over _ALL_ALIASES for line i: the first alias of a test not yet
\* captured that occurs on the line and for which a value is found.
LineMatches(lines, i, seen) ==
    SelectSeq(Unseen(_ALL_ALIASES, seen),
              LAMBDA a : /\ MatchEnd(lines[i], a.alias) > 0
                         /\ ValueFor(lines, i, MatchEnd(lines[i], a.alias)).found)

\* The loop over the lines from line i on; each result carries the line it was read on.
RECURSIVE ExtractFrom(_, _, _, _, _)
ExtractFrom(lines, i, seen, results, gender) ==
    IF i > Len(lines) THEN results
    ELSE IF SkippedLine(lines[i]) \/ LineMatches(lines, i, seen) = <<>>
    THEN ExtractFrom(lines, i + 1, seen, results, gender)
    ELSE LET a == LineMatches(lines, i, seen)[1]
             found == ValueFor(lines, i, MatchEnd(lines[i], a.alias))
             ref_unit == IF a.canonical \in DOMAIN BIOMARKERS
                         THEN BIOMARKERS[a.canonical].unit ELSE ""
             used_unit == IF found.unit # "" THEN found.unit ELSE ref_unit
             row == [test_name |-> a.canonical, value |-> found.value, unit |-> used_unit,
                     status |-> flag_status(BIOMARKERS, a.canonical, found.value,
                                            used_unit, gender),
                     line |-> i]
         IN  ExtractFrom(lines, i + 1, seen \cup {a.canonical}, Append(results, row), gender)

\* extract_biomarkers(text, gender) on the lines of a text.
extract_biomarkers_text(lines, gender) ==
    MapSeq(ExtractFrom(lines, 1, {}, <<>>, gender),
           LAMBDA r : [test_name |-> r.test_name, value |-> r.value, unit |-> r.unit,
                       status |-> r.status])

\* ------------------------------------------------------------------ trends
\* round(x, 1) of the quotient n / d (d > 0), in tenths: the nearest integer to n / d
\* (no quotient of the model falls half way between two tenths).
RoundDiv(n, d) == (2 * n + d) \div (2 * d)

\* The change computed against the latest value.
PctOfLatest(first_value, latest_value) ==
    IF latest_value = 0 THEN 0
    ELSE RoundDiv(1000 * (latest_value - first_value), latest_value)

\* change_%: round(delta / first * 100, 1) if first else 0, in tenths of a percent.
Pct(first_value, latest_value) ==
    IF first_value = 0 THEN 0
    ELSE RoundDiv(1000 * (latest_value - first_value), first_value)

\* The rows of one test in a history.
TestRows(history, t) == SelectSeq(history, LAMBDA r : r.test_name = t)

\* The dates of a set of dates in increasing order.
SortedDates(S) ==
    CHOOSE s \in [1..Cardinality(S) -> S] : \A i, j \in 1..Cardinality(S) : i < j => s[i] < s[j]

\* The groups that keep one row of the test for each of the given dates, in the order
\* of the dates (which row of a repeated date sort_values puts first is not fixed).
GroupsOver(history, t, dates) ==
    LET rows == TestRows(history, t)
        order == SortedDates(dates)
    IN  {g \in [1..Cardinality(dates) -> {rows[i] : i \in 1..Len(rows)}] :
            \A i \in 1..Cardinality(dates) : g[i].report_date = order[i]}

\* The groups made without dropping the rows that have no date.
TrendGroupsWithUndated(history, t) ==
    LET rows == TestRows(history, t)
    IN  GroupsOver(history, t, {rows[i].report_date : i \in 1..Len(rows)})

\* group.dropna(subset=["report_date"]).sort_values("report_date")
\*      .drop_duplicates("report_date")
TrendGroups(history, t) ==
    LET rows == TestRows(history, t)
    IN  GroupsOver(history, t, {rows[i].report_date : i \in 1..Len(rows)} \ {NaT})

\* The row generate_trends appends for one group of two dates or more.
TrendRow(t, group) ==
    LET first == group[1]
        latest == group[Len(group)]
    IN  [test_name |-> t, first_date |-> Iso(first.report_date),
         first_value |-> first.value, latest_date |-> Iso(latest.report_date),
         latest_value |-> latest.value, unit |-> latest.unit,
         change |-> Pct(first.value, latest.value),
         trend |-> IF latest.value - first.value > 0 THEN "up" ELSE "down",
         latest_status |-> latest.status, n_reports |-> Len(group)]

\* generate_trends(history): the frames the call can return, sorted by the size of
\* the change, largest first (rows of equal size in either order).
generate_trends(history) ==
    LET tests == {history[i].test_name : i \in 1..Len(history)}
        shown == {t \in tests : \E g \in TrendGroups(history, t) : Len(g) >= 2}
        rows == UNION {{TrendRow(t, g) : g \in TrendGroups(history, t)} : t \in shown}
    IN  {out \in [1..Cardinality(shown) -> rows] :
            /\ \A t \in shown : \E i \in DOMAIN out : out[i].test_name = t
            /\ \A i, j \in DOMAIN out : i < j => Abs(out[i].change) >= Abs(out[j].change)}

\* ------------------------------------------- two sessions saving at once
\* Streamlit runs the script of each browser session in a thread of its own, and
\* save_report takes no lock: its read of the profile, and the opening and the
\* writing of the file by to_csv, are separate steps of each session.
Sessions == {1, 2}

\* The documents the sessions upload: all of one patient.
ConcFiles == {"a.pdf", "c.pdf", "i.pdf"}

NotCalled == [pc |-> "idle", df |-> <<>>, out |-> <<>>]

\* The profile of the patient is absent, or holds the rows of an earlier upload.
ConcInit ==
    /\ \E f \in {"b.pdf"}, stored \in BOOLEAN :
          profiles = IF stored
                     THEN save_report(<<>>, process_pdf(f, PidOf("FULLNAME", FullName, "M", "")))
                     ELSE <<>>
    /\ pending = <<>>
    /\ uploaded = {}
    /\ llm_enabled = FALSE
    /\ ui = [page |-> "start", kind |-> "idle"]
    /\ decided = <<>>
    /\ ops = [uploads |-> 0, decisions |-> 0, admin |-> 0]
    /\ sessions = [s \in Sessions |-> NotCalled]

ConcUi(kind, s) == [page |-> "sessions", kind |-> kind, session |-> s]

ConcStep == UNCHANGED <<pending, llm_enabled, decided, uploaded, ops>>

\* open(path, "w"): the file exists and is empty.
Truncated(store, pid) == [p \in DOMAIN store \cup {pid} |-> IF p = pid THEN <<>> ELSE store[p]]

\* A write of `out` at the start of a file that holds `cur`: what lies past the end
\* of `out` stays.
Overwrite(cur, out) == out \o SubSeq(cur, Len(out) + 1, Len(cur))

\* The session's document passes the duplicate gate and process_pdf returns its rows.
ConcCall(s, f) ==
    /\ sessions[s].pc = "idle"
    /\ ~is_duplicate_file(profiles, f)
    /\ \E pid \in make_patient_id(profiles, extract_metadata(f)) :
          sessions' = [sessions EXCEPT ![s] = [pc |-> "called", df |-> process_pdf(f, pid),
                                               out |-> <<>>]]
    /\ ui' = ConcUi("called", s)
    /\ UNCHANGED profiles
    /\ ConcStep

\* save_report up to the call of to_csv: the profile is read if it exists and the
\* text to write is computed.  read_csv of a file another session has opened and
\* not yet written raises EmptyDataError.
ConcRead(s) ==
    /\ sessions[s].pc = "called"
    /\ LET df == sessions[s].df
           pid == df[1].patient_id
       IN  IF pid \in DOMAIN profiles /\ profiles[pid] = <<>>
           THEN sessions' = [sessions EXCEPT ![s].pc = "failed"]
           ELSE sessions' = [sessions EXCEPT ![s].pc = "merged",
                                             ![s].out = save_report(profiles, df)[pid]]
    /\ ui' = ConcUi("read", s)
    /\ UNCHANGED profiles
    /\ ConcStep

\* to_csv opens the file for writing.
ConcOpen(s) ==
    /\ sessions[s].pc = "merged"
    /\ profiles' = Truncated(profiles, sessions[s].df[1].patient_id)
    /\ sessions' = [sessions EXCEPT ![s].pc = "open"]
    /\ ui' = ConcUi("opened", s)
    /\ ConcStep

\* to_csv writes the text and closes the file.
ConcWrite(s) ==
    /\ sessions[s].pc = "open"
    /\ LET pid == sessions[s].df[1].patient_id
       IN  profiles' = [profiles EXCEPT ![pid] = Overwrite(@, sessions[s].out)]
    /\ sessions' = [sessions EXCEPT ![s].pc = "done"]
    /\ ui' = ConcUi("written", s)
    /\ ConcStep

ConcNext ==
    \/ \E s \in Sessions, f \in ConcFiles : ConcCall(s, f)
    \/ \E s \in Sessions : ConcRead(s)
    \/ \E s \in Sessions : ConcOpen(s)
    \/ \E s \in Sessions : ConcWrite(s)

ConcSpec == ConcInit /\ [][ConcNext]_vars

\* ------------------------------------------------- the functions called alone
\* One call of a function on an input drawn from a bounded set; ui holds the call,
\* its input and what it returned.
FnInit == StoreInit

FnUi(kind, input, out) == [page |-> "fn", kind |-> kind, input |-> input, out |-> out]

\* Nothing has been called yet.
FnIdle == ui.kind = "idle"

\* One call: nothing but ui changes.
FnCall == UNCHANGED <<profiles, pending, llm_enabled, decided, uploaded, ops, sessions>>

\* The values the audit is told to use for status, confidence and range_flag.
AuditStatuses == {"confirmed", "corrected", "low_confidence"}
Confidences == {"high", "low"}
RangeFlags == {"HIGH", "LOW", "CRITICAL_HIGH", "CRITICAL_LOW", "normal", "unknown"}

\* Differences between the audited and the extracted value: none, 0.0005 and 0.0015
\* either way, and 1.0.
Deltas == {0, 1, 0 - 1, 3, 0 - 3, 2000}

\* The extracted rows given to build_diff: one row, or two rows of different tests.
AuditedFrames ==
    LET df == process_pdf("a.pdf", PidOf("FULLNAME", FullName, "M", ""))
    IN  {df, df \o <<[df[1] EXCEPT !.test_name = 3, !.value = 500, !.unit = "%"]>>}

\* Every entry of "verifications" the audit can return for one extracted row.
Verifications(row) ==
    { [test |-> row.test_name, status |-> s, correct_value |-> cv, correct_unit |-> u,
       confidence |-> c, range_flag |-> f] :
         s \in AuditStatuses,
         cv \in {NoValue} \cup {row.value + d : d \in Deltas},
         u \in {row.unit, "", "g/dL"},
         c \in Confidences,
         f \in RangeFlags }

\* The audit results given to build_diff (never an error: the caller tests it): the
\* first row not mentioned, mentioned once, or mentioned a second time after Unsure.
AuditResults(df) ==
    { LlmResult(EmptyDate, [patient_name |-> <<>>, metadata_issues |-> <<>>,
                            verifications |-> vs, missed_tests |-> ms]) :
        vs \in {<<>>} \cup {<<v>> : v \in Verifications(df[1])}
                     \cup {<<Unsure(df[1]), v>> : v \in Verifications(df[1])},
        ms \in {<<>>, <<Missed>>} }

FnBuildDiff(df, llm_result) ==
    /\ FnCall
    /\ ui' = FnUi("build_diff", <<df, llm_result>>, build_diff(df, llm_result))

\* The histories given to generate_trends: up to MaxHistory rows of two tests, each
\* without date or on one of MaxTrendDay days, with a value of 0, 30, 100 or 120.
TrendValues == {0, 30000, 100000, 120000}

HistoryRows ==
    [test_name : {1, 2}, report_date : {NaT} \cup (1..MaxTrendDay), value : TrendValues,
     unit : {"mg/dL"}, status : {"Normal"}]

Histories == UNION {[1..n -> HistoryRows] : n \in 1..MaxHistory}

FnGenerateTrends(history) ==
    /\ FnCall
    /\ \E out \in generate_trends(history) : ui' = FnUi("generate_trends", history, out)

\* The rows a dictionary can hold for one test: a range for both sexes, one for men
\* and one for women.
SexRows ==
    { [sex |-> "both", normal_range |-> RangeString(70000, 99000)],
      [sex |-> "male", normal_range |-> SpacedRangeString(80000, 120000)],
      [sex |-> "female", normal_range |-> RangeString(60000, 90000)] }

\* The dictionaries given to flag_status: test 1 with one to three of the rows, in
\* every order, in ng/dl.  Test 2 is in none of them.
Dictionaries ==
    { (1 :> [unit |-> "ng/dl", sex_rows |-> rows]) :
        rows \in {r \in UNION {[1..n -> SexRows] : n \in 1..3} :
                    \A i, j \in DOMAIN r : i # j => r[i] # r[j]} }

\* Values at the bounds of the three ranges, 0.01 below and above them, and the same
\* for a tenth of the bounds (values in ng/ml).
FlagValues ==
    LET marks == {60000, 70000, 80000, 90000, 99000, 120000}
    IN  UNION {{b - 10, b, b + 10} : b \in marks \cup {m \div 10 : m \in marks}}

FnFlagStatus(biomarkers, canonical, value, unit, gender) ==
    /\ FnCall
    /\ ui' = FnUi("flag_status", <<biomarkers, canonical, value, unit, gender>>,
                  flag_status(biomarkers, canonical, value, unit, gender))

\* The texts of the normal_range column given to the two parsers: every form of the
\* grammar, without and with blanks, the empty cell and texts of no form.
RangeTexts ==
    LET numbers == {5000, 98600}
        signs == {">=", ">", "<=", "<"}
    IN  {<<>>, <<Sym(" ")>>, <<Sym("Negative")>>, <<Num(70000), Sym("-")>>,
         RangeString(70000, 99000), SpacedRangeString(70000, 99000),
         <<Num(70000), Sym("en dash"), Num(99000)>>,
         <<Num(70000), Sym(" "), Sym("en dash"), Sym(" "), Num(99000)>>}
        \cup {<<Num(x)>> : x \in numbers}
        \cup {<<Sym(c), Num(x)>> : c \in signs, x \in numbers}
        \cup {<<Sym(c), Sym(" "), Num(x)>> : c \in signs, x \in numbers}
        \cup {<<Sym(c), Sym("Negative")>> : c \in signs}

FnParseRange(s) ==
    /\ FnCall
    /\ ui' = FnUi("_parse_range", s,
                  [extraction |-> _parse_range(s), dashboard |-> _parse_range_app(s)])

\* Model bound: the lines of a text.
MaxLines == 3

\* The lines of the texts: results of HbA1c and of haemoglobin under their aliases,
\* with the value on the line, below it or missing, and a line of explanation.
TextLines ==
    { <<W("hb"), Wn("a1c", 1000), V(5600, "%")>>,
      <<W("hb"), Wn("a1c", 1000)>>,
      <<W("glycated"), W("haemoglobin"), V(5800, "%")>>,
      <<W("glycated"), W("haemoglobin")>>,
      <<W("hb"), V(13500, "g/dl")>>,
      <<W("haemoglobin"), V(14000, "")>>,
      <<V(6100, "%")>>,
      <<U("g/dl")>>,
      <<W("interpretation"), W("hb"), V(12000, "g/dl")>> }

Texts == UNION {[1..n -> TextLines] : n \in 1..MaxLines}

FnExtract(text, gender) ==
    /\ FnCall
    /\ ui' = FnUi("extract_biomarkers", text,
                  [results |-> extract_biomarkers_text(text, gender),
                   read |-> ExtractFrom(text, 1, {}, <<>>, gender)])

FnNext ==
    \/ FnIdle /\ \E s \in RangeTexts : FnParseRange(s)
    \/ FnIdle /\ \E text \in Texts : FnExtract(text, "F")
    \/ FnIdle /\ \E df \in AuditedFrames : \E r \in AuditResults(df) : FnBuildDiff(df, r)
    \/ FnIdle /\ \E history \in Histories : FnGenerateTrends(history)
    \/ FnIdle /\ \E bm \in Dictionaries, t \in {1, 2}, v \in FlagValues,
                     u \in {"ng/dl", "ng/mL", "mg/dL"}, g \in {"M", "F", ""} :
                    FnFlagStatus(bm, t, v, u, g)

FnSpec == FnInit /\ [][FnNext]_vars

\* ------------------------------------------------------------ properties
\* C1: in every reachable state each stored profile holds at most one row per
\* (test_name, report_date) pair.
C1_OneRowPerTestAndDate ==
    \A p \in DOMAIN profiles : \A i, j \in 1..Len(profiles[p]) :
        i # j => TestDate(profiles[p][i]) # TestDate(profiles[p][j])

\* The reports the upload page can hand to save_report in the current store.
ExtractedReports ==
    UNION { { IF override # EmptyDate THEN WithDate(process_pdf(f, pid), override)
              ELSE process_pdf(f, pid) :
                pid \in make_patient_id(profiles, extract_metadata(f)),
                override \in {EmptyDate} \cup IsoDates } :
            f \in {g \in Files : extract_biomarkers(g) # <<>>} }

\* C9: save_report called twice in succession with the same rows leaves the profile
\* after the second call equal to the profile after the first, for every report the
\* pipeline can extract, an empty report date included.
C9_SaveReportIdempotent ==
    \A df \in ExtractedReports :
        save_report(save_report(profiles, df), df) = save_report(profiles, df)

RowsOf(store, pid) == IF pid \in DOMAIN store THEN store[pid] ELSE <<>>

Results(rows, key) ==
    {<<rows[i].value, rows[i].unit, rows[i].status>> :
        i \in {j \in 1..Len(rows) : TestDate(rows[j]) = key}}

Count(rows, key) == Cardinality({j \in 1..Len(rows) : TestDate(rows[j]) = key})

\* C10: save_report keeps, for every (test_name, report_date) pair stored before the
\* call, the stored value, unit and status, and adds rows only for pairs that were
\* not stored before.
C10_SaveReportNeverOverwrites ==
    \A df \in ExtractedReports :
        LET pid == df[1].patient_id
            before == RowsOf(profiles, pid)
            after == RowsOf(save_report(profiles, df), pid)
        IN  \A i \in 1..Len(before) :
                LET key == TestDate(before[i])
                IN  /\ Results(after, key) # {}
                    /\ Results(after, key) \subseteq Results(before, key)
                    /\ Count(after, key) <= Count(before, key)

\* The items of a review the page asks a decision for.
Items(review) ==
    {<<"test", t>> : t \in TestsOf(Flagged(review.diff))}
    \cup (IF review.meta_corrections.date_correction # EmptyDate THEN {<<"date", 0>>} ELSE {})
    \cup (IF review.meta_corrections.name_correction # <<>> THEN {<<"name", 0>>} ELSE {})

\* C2: once the user has accepted or rejected every flagged row and every date or
\* name proposal of a review, one decision per interaction, the review is deleted:
\* no review of a stored profile whose items have all been decided is still pending.
C2_DecidedReviewIsDeleted ==
    \A key \in DOMAIN pending :
        (Items(pending[key]) # {} /\ pending[key].patient_id \in DOMAIN profiles)
        => decided[key] # Items(pending[key])

UploadStep == ops'.uploads = ops.uploads + 1
DecideStep == ops'.decisions = ops.decisions + 1

\* C3: when the user accepts a flagged row whose status is corrected and whose
\* proposed value is present, the stored row of that patient, report and test carries
\* the proposed value and unit with llm_verified = llm_corrected = TRUE afterwards.
C3_AcceptedCorrectionIsStored ==
    [][DecideStep =>
        LET review == pending[ui'.key]
            rows == RowsOf(profiles', review.patient_id)
        IN  \A k \in 1..Len(review.diff) :
                LET d == review.diff[k]
                IN  (/\ d.test_name \in ui'.accepted
                     /\ d.needs_review
                     /\ d.status = "corrected"
                     /\ d.llm_value # NoValue)
                    => \E i \in 1..Len(rows) :
                          /\ rows[i].test_name = d.test_name
                          /\ Prefix10(rows[i].report_date) = review.report_date
                          /\ rows[i].value = d.llm_value
                          /\ rows[i].unit = d.llm_unit
                          /\ rows[i].llm_verified
                          /\ rows[i].llm_corrected]_vars

Range(s) == {s[i] : i \in 1..Len(s)}

\* C4: a decision on the review page changes nothing but the rows of that review's
\* report for the accepted tests: the profiles of other patients, the rows of the
\* patient's other report dates, and the value and unit of the tests of the report
\* that were not accepted are as before.
C4_DecisionChangesOnlyAcceptedRows ==
    [][DecideStep =>
        LET review == pending[ui'.key]
            pid == review.patient_id
            before == RowsOf(profiles, pid)
            after == RowsOf(profiles', pid)
        IN  /\ \A p \in DOMAIN profiles \ {pid} :
                  p \in DOMAIN profiles' /\ profiles'[p] = profiles[p]
            /\ \A i \in 1..Len(before) :
                  IF Prefix10(before[i].report_date) # review.report_date
                  THEN before[i] \in Range(after)
                  ELSE before[i].test_name \notin ui'.accepted
                       => \E j \in 1..Len(after) :
                             /\ after[j].test_name = before[i].test_name
                             /\ after[j].value = before[i].value
                             /\ after[j].unit = before[i].unit]_vars

\* C5: an upload writes the date proposed by the audit into the report without review
\* only when the extracted date was empty and no override was given; a report whose
\* date was extracted is stored under the extracted date.
C5_AuditDateOnlyFillsEmptyDate ==
    (ui.page = "upload" /\ ui.kind \in {"all_confirmed", "needs_review"})
    => /\ ui.claude_date # EmptyDate
          => extract_metadata(ui.file).date = EmptyDate /\ ui.override = EmptyDate
       /\ (extract_metadata(ui.file).date # EmptyDate /\ ui.override = EmptyDate)
          => ui.stored_date = extract_metadata(ui.file).date

C7_ReuploadIsDuplicate ==
    [][(UploadStep /\ ui'.again /\ extract_biomarkers(ui'.file) # <<>>)
       => (ui'.kind = "duplicate" /\ profiles' = profiles)]_vars

\* C8: when a document whose rows are stored with an empty report date is uploaded
\* again with a date override, the upload is processed and the rows of the document
\* are stored under the override date.
C8_ReuploadWithOverrideIsProcessed ==
    [][(/\ UploadStep
        /\ ui'.override # EmptyDate
        /\ \E p \in DOMAIN profiles : \E i \in 1..Len(profiles[p]) :
              /\ profiles[p][i].file_hash = file_hash(ui'.file)
              /\ profiles[p][i].report_date = EmptyDate)
       => /\ ui'.kind # "duplicate"
          /\ \E p \in DOMAIN profiles' : \E i \in 1..Len(profiles'[p]) :
                /\ profiles'[p][i].file_hash = file_hash(ui'.file)
                /\ profiles'[p][i].report_date = ui'.override]_vars

StoreStep(kind) == ops'.admin = ops.admin + 1 /\ ui'.kind = kind

\* C11: merging profile A into another profile B leaves B with its own rows followed by
\* the rows of A whose (report_date, test_name) pair B did not hold, relabelled with
\* the id and name of B, and deletes A.
C11_MergeKeepsTargetAddsNewPairs ==
    [][(/\ StoreStep("merge_into_patient")
        /\ ui'.args[1] \in DOMAIN profiles
        /\ ui'.args[2] \in DOMAIN profiles)
       => LET A == ui'.args[1]
              B == ui'.args[2]
              held == {DateTest(profiles[B][i]) : i \in 1..Len(profiles[B])}
              moved == SelectSeq(profiles[A], LAMBDA r : DateTest(r) \notin held)
          IN  /\ A \notin DOMAIN profiles'
              /\ B \in DOMAIN profiles'
              /\ profiles'[B] = profiles[B] \o
                    MapSeq(moved, LAMBDA r :
                        [r EXCEPT !.patient_id = B,
                                  !.patient_name = profiles[B][1].patient_name])]_vars

\* C12: renaming, merging, deleting a patient or deleting a report on a profile that
\* does not exist (for a merge: either profile; for a report: also when no row of the
\* profile has the date) returns failure and leaves every stored profile unchanged.
C12_MissingProfileFailsAndChangesNothing ==
    [][(\/ /\ StoreStep("rename_patient")
           /\ ui'.args[1] \notin DOMAIN profiles
        \/ /\ StoreStep("merge_into_patient")
           /\ (ui'.args[1] \notin DOMAIN profiles \/ ui'.args[2] \notin DOMAIN profiles)
        \/ /\ StoreStep("delete_patient")
           /\ ui'.args[1] \notin DOMAIN profiles
        \/ /\ StoreStep("delete_report_by_date")
           /\ \/ ui'.args[1] \notin DOMAIN profiles
              \/ \A i \in 1..Len(profiles[ui'.args[1]]) :
                    Prefix10(profiles[ui'.args[1]][i].report_date) # ui'.args[2])
       => (~ui'.ok /\ profiles' = profiles)]_vars

\* A merge whose source exists and whose target does not has returned failure.
C12_MergeIntoMissingTarget ==
    /\ ui.kind = "merge_into_patient"
    /\ ui.args[1] \in DOMAIN profiles
    /\ ui.args[2] \notin DOMAIN profiles
    /\ ~ui.ok

SameFirstWordAndGender(store, first_name, gender) ==
    {p \in DOMAIN store :
        /\ store[p][1].patient_name # <<>>
        /\ store[p][1].patient_name[1] = first_name
        /\ store[p][1].gender = gender}

\* C14: a document whose cleaned name has two or more real words gets the identifier
\* derived from its words and its gender alone, whatever is stored; a document whose
\* name has exactly one real word, of four characters or more, saved while a stored
\* profile has the same first word and the same gender in its first row, gets the
\* identifier of such a profile.
C14_IdentityResolution ==
    [][StoreStep("save_report")
       => LET pid == ui'.args[1]
              meta == extract_metadata(ui'.args[2])
              words == real_words(meta.name)
              same == IF Len(words) = 1
                      THEN SameFirstWordAndGender(profiles, words[1], meta.gender)
                      ELSE {}
          IN  /\ Len(words) >= 2 => pid = PidOf("FULLNAME", words, meta.gender, "")
              /\ (Len(words) = 1 /\ Len(words[1]) >= 4 /\ same # {}) => pid \in same]_vars

\* The rows of the diff returned by the call of build_diff held in ui.
DiffRows == IF ui.kind = "build_diff" THEN {ui.out[i] : i \in 1..Len(ui.out)} ELSE {}

\* C15 as stated: build_diff never sets needs_review on a diff row whose status is
\* confirmed, whatever confidence and range_flag the audit returned for it.
C15_ConfirmedNeverNeedsReview ==
    \A d \in DiffRows : d.status = "confirmed" => ~d.needs_review

\* C15 amended: a diff row whose status is confirmed has needs_review set exactly when
\* its confidence is low or its range_flag is HIGH, LOW, CRITICAL_HIGH or CRITICAL_LOW;
\* a difference of value or unit never sets it.
C15_ConfirmedNeedsReviewOnlyOnDoubtOrRange ==
    \A d \in DiffRows :
        d.status = "confirmed"
        => (d.needs_review <=> (d.confidence = "low" \/ InFlagSet(d.range_flag)))

\* The audit confirmed a row with another value, high confidence and a normal range:
\* the diff row does not need review.
C15_ConfirmedWithOtherValue ==
    \E d \in DiffRows :
        /\ d.status = "confirmed"
        /\ d.llm_value # d.regex_value
        /\ d.confidence = "high"
        /\ d.range_flag = "normal"
        /\ ~d.needs_review

\* C16: build_diff returns one diff row per extracted row, in order, then one per missed
\* test.  The row of a test the audit does not mention is confirmed with needs_review
\* false; the row of a mentioned test has needs_review true exactly when (the status is
\* corrected and (the proposed value differs by more than 0.001 or the proposed unit is
\* non-empty and differs)) or the confidence is low or the range_flag is HIGH, LOW,
\* CRITICAL_HIGH or CRITICAL_LOW; the row of a missed test has status missed_by_regex
\* and needs_review true.
C16_BuildDiffRows ==
    ui.kind = "build_diff"
    => LET df == ui.input[1]
           res == ui.input[2]
           out == ui.out
       IN  /\ Len(out) = Len(df) + Len(res.missed_tests)
           /\ \A i \in 1..Len(df) :
                 LET row == df[i]
                     d == out[i]
                     said == {k \in 1..Len(res.verifications) :
                                 res.verifications[k].test = row.test_name}
                 IN  /\ d.test_name = row.test_name
                     /\ said = {} => (d.status = "confirmed" /\ ~d.needs_review)
                     /\ said # {}
                        => LET v == res.verifications[CHOOSE k \in said :
                                                        \A j \in said : j <= k]
                           IN  d.needs_review <=>
                                 \/ /\ v.status = "corrected"
                                    /\ \/ /\ v.correct_value # NoValue
                                          /\ Abs(v.correct_value - row.value) > Tolerance
                                       \/ v.correct_unit # "" /\ v.correct_unit # row.unit
                                 \/ v.confidence = "low"
                                 \/ v.range_flag \in {"HIGH", "LOW", "CRITICAL_HIGH",
                                                      "CRITICAL_LOW"}
           /\ \A j \in 1..Len(res.missed_tests) :
                 LET d == out[Len(df) + j]
                 IN  /\ d.test_name = res.missed_tests[j].test
                     /\ d.status = "missed_by_regex"
                     /\ d.needs_review

\* A corrected row whose value differs by 0.0005, with the same unit, high confidence
\* and no range flag, is not flagged, next to the flagged row of a missed test.
C16_SmallCorrectionNotFlagged ==
    /\ ui.kind = "build_diff"
    /\ \E i, j \in 1..Len(ui.out) :
          /\ ui.out[i].status = "corrected"
          /\ ui.out[i].llm_value = ui.out[i].regex_value + 1
          /\ ui.out[i].llm_unit = ui.input[1][i].unit
          /\ ui.out[i].confidence = "high"
          /\ ui.out[i].range_flag = "normal"
          /\ ~ui.out[i].needs_review
          /\ ui.out[j].status = "missed_by_regex"
          /\ ui.out[j].needs_review

\* The stored rows of the report a review is about.
ReportRows(store, review) ==
    SelectSeq(RowsOf(store, review.patient_id),
              LAMBDA r : Prefix10(r.report_date) = review.report_date)

\* C17: a decision that accepts a missed_by_regex row of a review adds exactly one row
\* to the stored report, with the audited value and unit and the unknown status; a
\* decision that accepts nothing (a rejection) leaves the number of rows of the report
\* unchanged.
C17_AcceptedMissedTestAddsOneRow ==
    [][(DecideStep /\ pending[ui'.key].patient_id \in DOMAIN profiles)
       => LET review == pending[ui'.key]
              before == ReportRows(profiles, review)
              after == ReportRows(profiles', review)
              missed == {k \in 1..Len(review.diff) :
                            /\ review.diff[k].status = "missed_by_regex"
                            /\ review.diff[k].test_name \in ui'.accepted}
          IN  /\ missed # {} => Len(after) = Len(before) + Cardinality(missed)
              /\ (ui'.accepted = {} /\ ui'.kind = "no_write") => Len(after) = Len(before)
              /\ \A k \in missed :
                    \E i \in 1..Len(after) :
                        /\ after[i].test_name = review.diff[k].test_name
                        /\ after[i].value = review.diff[k].llm_value
                        /\ after[i].unit = review.diff[k].llm_unit
                        /\ after[i].status = Unknown]_vars

\* The dates on which a history holds a reading of a test.
ReadingDates(history, t) ==
    {history[i].report_date : i \in {k \in 1..Len(history) : history[k].test_name = t}}
    \ {NaT}

\* C18: generate_trends returns a row for a test exactly when the history holds rows of
\* the test on two distinct dates or more (rows without date and repeated dates do not
\* count), at most one row per test, and n_reports of the row is the number of distinct
\* dates of the test.
C18_TrendRowIffTwoDates ==
    ui.kind = "generate_trends"
    => \A t \in {1, 2} :
          LET rows == {i \in 1..Len(ui.out) : ui.out[i].test_name = t}
              n == Cardinality(ReadingDates(ui.input, t))
          IN  /\ rows # {} <=> n >= 2
              /\ Cardinality(rows) <= 1
              /\ \A i \in rows : ui.out[i].n_reports = n

\* A test read three times, twice on one day and once on another, gets a row that
\* counts two reports.
C18_RepeatedDateCountsOnce ==
    /\ ui.kind = "generate_trends"
    /\ Len(ui.input) = 3
    /\ \A i \in 1..3 : ui.input[i].test_name = 1 /\ ui.input[i].report_date # NaT
    /\ Len(ui.out) = 1
    /\ ui.out[1].n_reports = 2

\* C19: in every trend row, change_% is (latest value - first value) / first value x 100
\* rounded to one decimal, where first and latest are readings of the earliest and of
\* the latest date of the test (100 then 120 gives 20.0); when the first value is 0 the
\* change is 0.
C19_PercentChange ==
    ui.kind = "generate_trends"
    => \A k \in 1..Len(ui.out) :
          LET row == ui.out[k]
              dates == ReadingDates(ui.input, row.test_name)
              delta == row.latest_value - row.first_value
          IN  /\ \E i, j \in 1..Len(ui.input) :
                    /\ ui.input[i].test_name = row.test_name
                    /\ ui.input[j].test_name = row.test_name
                    /\ ui.input[i].report_date \in dates
                    /\ ui.input[j].report_date \in dates
                    /\ \A d \in dates : ui.input[i].report_date <= d
                    /\ \A d \in dates : ui.input[j].report_date >= d
                    /\ ui.input[i].value = row.first_value
                    /\ ui.input[j].value = row.latest_value
              /\ row.first_value = 0 => row.change = 0
              /\ row.first_value # 0
                 => Abs(2 * row.change * row.first_value - 2000 * delta) <= row.first_value
              /\ (row.first_value = 100000 /\ row.latest_value = 120000) => row.change = 200

\* A trend row whose first value is 0 and whose latest value is not: the change is 0.
C19_FirstValueZero ==
    /\ ui.kind = "generate_trends"
    /\ \E k \in 1..Len(ui.out) :
          /\ ui.out[k].first_value = 0
          /\ ui.out[k].latest_value = 120000
          /\ ui.out[k].change = 0

\* C20: flag_status returns the unknown status when the test is not in the dictionary
\* or when the test has neither a row of the patient's sex nor a row for both sexes.
\* Otherwise the bounds of the row of the patient's sex apply when there is one, in
\* whatever place, and those of the row for both sexes when there is none; both bounds
\* are inclusive: the value converted to the unit of the dictionary is LOW below the
\* lower bound, HIGH above the upper bound and Normal from one bound to the other.
C20_FlagStatus ==
    ui.kind = "flag_status"
    => LET biomarkers == ui.input[1]
           canonical == ui.input[2]
           value == IF ui.input[4] = "ng/mL" THEN 10 * ui.input[3] ELSE ui.input[3]
           sex == IF ui.input[5] = "M" THEN "male"
                  ELSE IF ui.input[5] = "F" THEN "female" ELSE "none"
       IN  IF canonical \notin DOMAIN biomarkers THEN ui.out = Unknown
           ELSE LET rows == biomarkers[canonical].sex_rows
                    own == {i \in 1..Len(rows) : rows[i].sex = sex}
                    both == {i \in 1..Len(rows) : rows[i].sex = "both"}
                    applies == IF own # {} THEN own ELSE both
                IN  IF applies = {} THEN ui.out = Unknown
                    ELSE \A i \in applies :
                            LET low == Head(rows[i].normal_range).num
                                high == rows[i].normal_range[Len(rows[i].normal_range)].num
                            IN  /\ ui.out = "LOW" <=> value < low
                                /\ ui.out = "HIGH" <=> value > high
                                /\ ui.out = "Normal" <=> (low <= value /\ value <= high)

\* A man's value of 120, the upper bound of the range for men, is Normal although the
\* row for both sexes (70-99) comes first in the dictionary.
C20_SexRowAfterBothRow ==
    /\ ui.kind = "flag_status"
    /\ ui.input[2] \in DOMAIN ui.input[1]
    /\ Len(ui.input[1][ui.input[2]].sex_rows) >= 2
    /\ ui.input[1][ui.input[2]].sex_rows[1].sex = "both"
    /\ ui.input[1][ui.input[2]].sex_rows[2].sex = "male"
    /\ ui.input[3] = 120000
    /\ ui.input[4] = "ng/dl"
    /\ ui.input[5] = "M"
    /\ ui.out = "Normal"

\* The pair the grammar of the reference file gives a text: "low-high" with a hyphen or
\* an en dash, a bound after >=, >, <= or <, a bare number as both bounds, and no
\* bound for anything else.
ExpectedRange(s0) ==
    LET t == SelectSeq(s0, LAMBDA x : x.sym # " ")
        Pair(low, high) == [error |-> FALSE, low |-> low, high |-> high]
    IN  IF Len(t) = 3 /\ t[1].sym = "num" /\ t[2].sym \in {"-", "en dash"} /\ t[3].sym = "num"
        THEN Pair(t[1].num, t[3].num)
        ELSE IF Len(t) = 2 /\ t[1].sym \in {">=", ">"} /\ t[2].sym = "num"
        THEN Pair(t[2].num, NoValue)
        ELSE IF Len(t) = 2 /\ t[1].sym \in {"<=", "<"} /\ t[2].sym = "num"
        THEN Pair(NoValue, t[2].num)
        ELSE IF Len(t) = 1 /\ t[1].sym = "num" THEN Pair(t[1].num, t[1].num)
        ELSE Pair(NoValue, NoValue)

\* C21: for every text of the normal_range column, the parser of the extraction side
\* and the parser of the dashboard both return the pair the grammar gives it, and so
\* the same pair.
C21_ParseRangeForms ==
    ui.kind = "_parse_range"
    => /\ ui.out.extraction = ExpectedRange(ui.input)
       /\ ui.out.dashboard = ExpectedRange(ui.input)

AdminStep == ops'.admin = ops.admin + 1

\* C22: a merge, a deletion of a report or a deletion of a patient on the Patient
\* Profiles page changes the store only in a step taken from the confirmation step of
\* that action: a press of the action button alone changes nothing.
C22_DestructiveActionsAreConfirmed ==
    [][(/\ AdminStep
        /\ ui'.page = "profiles"
        /\ ui'.kind \in {"merged", "report_deleted", "patient_deleted"}
        /\ profiles' # profiles)
       => (ui.page = "profiles" /\ ui.kind = "confirming")]_vars

\* The two sessions have returned from save_report, on the same profile.
BothSaved ==
    /\ \A s \in Sessions : sessions[s].pc = "done"
    /\ sessions[1].df[1].patient_id = sessions[2].df[1].patient_id

\* C23: when two sessions have run save_report at once on one profile, the profile
\* holds exactly the text the session that wrote last has written.
C23_LastWriterWins ==
    (BothSaved /\ ui.kind = "written")
    => profiles[sessions[ui.session].df[1].patient_id] = sessions[ui.session].out

\* The number of results of a test.
ResultsOf(results, t) == Cardinality({i \in 1..Len(results) : results[i].test_name = t})

\* C24: the results extracted from one text hold at most one row of each canonical
\* test name, however often the aliases of the test occur in the text.
C24_OneRowPerTest ==
    ui.kind = "extract_biomarkers"
    => \A t \in DOMAIN BIOMARKERS : ResultsOf(ui.out.results, t) <= 1

\* An alias of HbA1c occurs with a value on two lines of the text and the results hold
\* one row of HbA1c, with the first value.
C24_AliasOnTwoLines ==
    /\ ui.kind = "extract_biomarkers"
    /\ Len(ui.input) >= 2
    /\ ui.input[1] = <<W("hb"), Wn("a1c", 1000), V(5600, "%")>>
    /\ ui.input[2] = <<W("glycated"), W("haemoglobin"), V(5800, "%")>>
    /\ ResultsOf(ui.out.results, "HbA1c") = 1
    /\ ui.out.results[1].value = 5600

\* The line holds an alias of the test `long` that holds an alias of another test
\* `short` as whole words.
HoldsLongerAlias(line, long, short) ==
    \E a \in Range(_ALL_ALIASES), b \in Range(_ALL_ALIASES) :
        /\ a.canonical = long /\ b.canonical = short /\ long # short
        /\ MatchEnd(line, a.alias) > 0
        /\ MatchEnd(MapSeq(a.alias, W), b.alias) > 0

\* C25: no result read on a line that holds a longer alias is recorded under the test
\* of a shorter alias which that longer alias holds, whatever was captured on earlier
\* lines and whether or not a value is found for the longer alias.
C25_LongerAliasWins ==
    ui.kind = "extract_biomarkers"
    => \A k \in 1..Len(ui.out.read) :
          \A long \in DOMAIN BIOMARKERS, short \in DOMAIN BIOMARKERS :
              HoldsLongerAlias(ui.input[ui.out.read[k].line], long, short)
              => ui.out.read[k].test_name # short

\* C26: in every reachable state each pending review names a stored profile, and a
\* report date that some row of that profile carries.
C26_NoDanglingReview ==
    \A k \in DOMAIN pending :
        /\ pending[k].patient_id \in DOMAIN profiles
        /\ \E i \in 1..Len(profiles[pending[k].patient_id]) :
              Prefix10(profiles[pending[k].patient_id][i].report_date) = pending[k].report_date

\* The flagged rows of the review at path k on which no decision has been taken.
UnresolvedFlags(k) ==
    {r \in Range(Flagged(pending[k].diff)) : <<"test", r.test_name>> \notin decided[k]}

\* C27: an upload that saves a pending review leaves every unresolved flag of the
\* reviews saved by earlier uploads in place, also when the two documents are of the
\* same patient and the same report date.
C27_SavingKeepsEarlierFlags ==
    [][(UploadStep /\ pending' # pending)
       => \A k \in DOMAIN pending : \A r \in UnresolvedFlags(k) :
              /\ k \in DOMAIN pending'
              /\ r \in Range(pending'[k].diff)]_vars

\* The profiles that hold rows of the document g.
HoldersOf(store, g) ==
    {p \in DOMAIN store : \E i \in 1..Len(store[p]) : store[p][i].file_hash = file_hash(g)}

\* f carries the full name and g the same name cut short: one real word, of four
\* characters or more, equal to the first word of f, and the same gender.
TruncatedOf(f, g) ==
    LET full == real_words(extract_metadata(f).name)
        short == real_words(extract_metadata(g).name)
    IN  /\ Len(full) >= 2 /\ Len(short) = 1
        /\ Len(short[1]) >= 4 /\ short[1] = full[1]
        /\ extract_metadata(f).gender = extract_metadata(g).gender

\* C28: a report with the full name and a report of the same gender with that name cut
\* short end in the same profile in either order of upload: the one saved second gets
\* the identifier of the profile that holds the one saved first.
C28_SameProfileInEitherOrder ==
    [][StoreStep("save_report")
       => \A g \in StoreFiles :
             ((TruncatedOf(ui'.args[2], g) \/ TruncatedOf(g, ui'.args[2]))
              /\ HoldersOf(profiles, g) # {})
             => ui'.args[1] \in HoldersOf(profiles, g)]_vars

\* The (test_name, report_date) pairs of the rows of a profile.
PairsOf(rows) == {TestDate(rows[i]) : i \in 1..Len(rows)}

\* C29: after every successful merge the target profile is stored and holds every
\* (test_name, report_date) pair that the source or the target held before, for every
\* pair of stored identifiers, the source being the target included.
C29_MergeKeepsTargetAndPairs ==
    [][(StoreStep("merge_into_patient") /\ ui'.ok)
       => LET source_id == ui'.args[1]
              target_id == ui'.args[2]
          IN  /\ target_id \in DOMAIN profiles'
              /\ PairsOf(profiles[source_id]) \cup PairsOf(profiles[target_id])
                    \subseteq PairsOf(profiles'[target_id])]_vars

\* C30: after a save_report on a profile that is stored, the name list_patients
\* reports for the profile (the patient_name of its first row) is not shorter than the
\* name it reported before.
C30_ListedNameNeverShrinks ==
    [][(StoreStep("save_report") /\ ui'.args[1] \in DOMAIN profiles)
       => NameLen(profiles'[ui'.args[1]][1].patient_name)
            >= NameLen(profiles[ui'.args[1]][1].patient_name)]_vars

====
